---- MODULE Spec2Model ----
(***************************************************************************)
(* The block-following loop of the MASP indexer (chain/src/main.rs):       *)
(* startup (migrations, loading the committed state), the follower loop    *)
(* with its unbounded retry, the per-height block attempt and the atomic   *)
(* commit, together with process crashes, restarts and the shutdown        *)
(* signal.                                                                 *)
(***************************************************************************)
EXTENDS Integers, Sequences, FiniteSets, TLC

\* ------------------------------------------------------------------ bounds
\* Heights 0..MaxHeight exist on the chain; no later block is ever finalized.
MaxHeight == 2
\* Depth of the commitment tree (the tree is full at 2^Depth leaves).
Depth == 2
\* How many times the process is started again after it stopped or crashed.
MaxRestarts == 2
\* failed attempts at one height that the history counts
MaxTries == 2

\* ---------------------------------------------------------- small helpers
\* Option<BlockHeight>::None, as read from an empty chain_state table.
NoHeight == -1

Pow2(n) == 2 ^ n

Take(s, n) == SubSeq(s, 1, IF n < Len(s) THEN n ELSE Len(s))
Drop(s, n) == SubSeq(s, n + 1, Len(s))

\* --------------------------------------------------------- the chain (RPC)
\* A block is the ordered list BlockData.transactions of (idx, masp_txs); a
\* masp tx is modelled by the sequence of its output commitments.  The shape
\* of a block gives, for each transaction, its index in the block and the
\* number of outputs of each of its masp txs.
BlockShapes ==
    << << <<0, <<2>>>>, <<2, <<1>>>> >>,
       << <<0, <<1>>>> >>,
       <<>>,
       << <<1, <<0, 1>>>> >> >>

\* The commitment (cmu) of output o of masp tx m of transaction idx at height h.
Commitment(h, idx, m, o) == <<h, idx, m, o>>

MaspTxOf(h, idx, m, n) == [o \in 1..n |-> Commitment(h, idx, m - 1, o - 1)]

TransactionOf(h, t) ==
    <<t[1], [m \in 1..Len(t[2]) |-> MaspTxOf(h, t[1], m, t[2][m])]>>

BlockOf(h, shape) == [i \in 1..Len(shape) |-> TransactionOf(h, shape[i])]

Heights == 0..MaxHeight

\* The chains: the shapes in turn, from any of them on.
Chains ==
    { [h \in Heights |-> BlockShapes[((h + s) % Len(BlockShapes)) + 1]] :
        s \in 0..(Len(BlockShapes) - 1) }

\* ------------------------------------------------------- commitment tree
\* The hash of the tree: layers are hashed pairwise, an absent leaf is the
\* canonical empty value.
EmptyLeaf == <<>>

Hash(l, r) == <<l, r>>

RECURSIVE MerkleRoot(_, _)
MerkleRoot(leaves, d) ==
    IF d = 0
    THEN IF leaves = <<>> THEN EmptyLeaf ELSE leaves[1]
    ELSE Hash(MerkleRoot(Take(leaves, Pow2(d - 1)), d - 1),
              MerkleRoot(Drop(leaves, Pow2(d - 1)), d - 1))

\* CommitmentTree: a handle on (tree, checkpoint); the tree is given by its
\* appended leaves.
NewTree(leaves) == [tree |-> leaves, checkpoint |-> leaves]

TreeSize(t) == Len(t.tree)

TreeRoot(leaves) == MerkleRoot(leaves, Depth)

TreeFull(leaves) == Len(leaves) = Pow2(Depth)

TreeAppend(t, node) == [t EXCEPT !.tree = Append(@, node)]

TreeRollback(t) == [t EXCEPT !.tree = t.checkpoint]

TreeCheckpoint(t) == [t EXCEPT !.checkpoint = t.tree]

\* ------------------------------------------------------------ witness map
\* An incremental witness: the tree as it was when the leaf was appended
\* (the leaf is its last one) and the leaves appended since.
WitnessFromTree(leaves) == [tree |-> leaves, filled |-> <<>>]

WitnessAppend(w, node) == [w EXCEPT !.filled = Append(@, node)]

WitnessPosition(w) == Len(w.tree) - 1

WitnessRoot(w) == MerkleRoot(w.tree \o w.filled, Depth)

NewWitnessMap(m) == [map |-> m, checkpoint |-> m]

EmptyMap == [p \in {} |-> <<>>]

WitnessMapSize(wm) == Cardinality(DOMAIN wm.map)

WitnessMapUpdate(wm, node) ==
    [wm EXCEPT !.map = [p \in DOMAIN wm.map |-> WitnessAppend(wm.map[p], node)]]

WitnessMapInsert(wm, pos, w) ==
    [wm EXCEPT !.map = [p \in (DOMAIN wm.map) \cup {pos} |->
                            IF p = pos THEN w ELSE wm.map[p]]]

WitnessMapRollback(wm) == [wm EXCEPT !.map = wm.checkpoint]

WitnessMapCheckpoint(wm) == [wm EXCEPT !.checkpoint = wm.map]

\* ------------------------------------------------------ persisted storage
\* The five tables.  commitment_tree and witness_map hold the serialized
\* form: the tree as at most one row (bytes, size), the witness map as one
\* row per witness.
SerializeTree(leaves) == << [bytes |-> leaves, size |-> Len(leaves)] >>

DeserializeTree(rows) == IF rows = <<>> THEN <<>> ELSE rows[1].bytes

SerializeWitnessMap(m) == { [position |-> p, witness |-> m[p]] : p \in DOMAIN m }

DeserializeWitnessMap(rows) ==
    [p \in { r.position : r \in rows } |->
        (CHOOSE r \in rows : r.position = p).witness]

EmptyDb ==
    [ chain_state     |-> NoHeight,
      commitment_tree |-> <<>>,
      witness_map     |-> {},
      notes_index     |-> <<>>,
      shielded_txs    |-> {} ]

\* Storage as the indexer may find it when it is first started: empty, or left
\* with only one of the tree and the witness map by something other than the
\* indexer's commit (the case the startup check refuses).
PreloadedLeaf == Commitment(0, 0, 0, 0)

TreeOnlyDb ==
    [EmptyDb EXCEPT !.commitment_tree = SerializeTree(<< PreloadedLeaf >>)]

WitnessOnlyDb ==
    [EmptyDb EXCEPT !.witness_map =
        SerializeWitnessMap(0 :> WitnessFromTree(<< PreloadedLeaf >>))]

InvalidDbs == { TreeOnlyDb, WitnessOnlyDb }

InitialDbs == { EmptyDb } \cup InvalidDbs

\* DATABASE_MAX_MIGRATION_RETRY as the environment may give it, and the parse
\* of it: unset or not an integer gives 5.
DEFAULT_MIGRATION_RETRY == 5

EnvChoices ==
    { [kind |-> "unset",   n |-> 0],
      [kind |-> "invalid", n |-> 0],
      [kind |-> "int",     n |-> 0],
      [kind |-> "int",     n |-> 1] }

NoEnv == [kind |-> "none", n |-> 0]

ParseMaxRetries(e) == IF e.kind = "int" THEN e.n ELSE DEFAULT_MIGRATION_RETRY

\* ------------------------------------------------------------------ state
VARIABLES
    pc,               \* position of main / of the block attempt
    exit_handle,      \* the shutdown flag (AtomicBool)
    db,               \* persisted storage
    txn,              \* the open storage transaction of commit: <<>> or <<new db>>
    chain,            \* the blocks of the chain, by height
    tip,              \* the highest finalized height (NoHeight: none yet)
    max_retries,      \* run_migrations: retries left
    block_height,     \* main: the height of the current loop iteration
    commitment_tree,  \* main: the in-memory tree handle
    witness_map,      \* main: the in-memory witness map handle
    block_data,       \* attempt: the fetched BlockData.transactions
    ti, mi, oi,       \* attempt: transaction, masp tx and output reached
    tx_notes_index,   \* attempt: the note-position index being built
    shielded_txs,     \* attempt: the shielded txs being collected
    main_result,      \* "running", "ok", or the error main returned
    \* history, not read by the program
    restarts,         \* how many times the process was started again
    mig_n,            \* run_migrations: the parsed retry limit
    mig_attempts,     \* run_migrations: migration attempts made
    commit_log,       \* heights of the successful commits, in order
    first_attempt,    \* the first height attempted by this process (or NoHeight)
    attempt_db,       \* storage as it was when the current attempt started
    attempt_size,     \* tree size after the rollback of the current attempt
    dirty_height,     \* the last height at which a failed attempt had appended leaves
    attempt_result,   \* how the last attempt ended
    start_height,     \* the persisted height when this process started
    crash_pc,         \* where the process was when it was killed
    env_retry,        \* run_migrations: what DATABASE_MAX_MIGRATION_RETRY held
    nc_tally,         \* "not committed" failures in a row at this height
    starts,           \* calls of the attempt at this height, while counted
    exit_at,          \* what the follower was doing when the flag was set
    in_flight         \* the attempt that ran when the flag was set still runs

vars == << pc, exit_handle, db, txn, chain, tip, max_retries, block_height,
           commitment_tree, witness_map, block_data, ti, mi, oi,
           tx_notes_index, shielded_txs, main_result, restarts, mig_n,
           mig_attempts, commit_log, first_attempt, attempt_db, attempt_size,
           dirty_height, attempt_result, start_height, crash_pc, env_retry,
           nc_tally, starts, exit_at, in_flight >>

\* groups, for UNCHANGED
mem_vars    == << commitment_tree, witness_map >>
loop_vars   == << block_data, ti, mi, oi, tx_notes_index, shielded_txs >>
mig_vars    == << max_retries, mig_n, mig_attempts, env_retry >>
run_vars    == << start_height, crash_pc >>
tip_vars    == << nc_tally, starts >>
exit_vars   == << exit_at, in_flight >>
hist_vars   == << commit_log, first_attempt, attempt_db, attempt_size, dirty_height,
                 attempt_result, run_vars, tip_vars, exit_vars >>

\* nc_tally when the failures at this height are no longer counted: another
\* failure happened, or more than MaxTries
Untracked == MaxTries + 1

\* The in-memory state of a process that has just started.
FreshProcess ==
    /\ pc = "main"
    /\ exit_handle = FALSE
    /\ txn = <<>>
    /\ max_retries = 0
    /\ block_height = NoHeight
    /\ commitment_tree = NewTree(<<>>)
    /\ witness_map = NewWitnessMap(EmptyMap)
    /\ block_data = <<>>
    /\ ti = 0 /\ mi = 0 /\ oi = 0
    /\ tx_notes_index = <<>>
    /\ shielded_txs = {}
    /\ main_result = "running"
    /\ mig_n = 0
    /\ mig_attempts = 0
    /\ first_attempt = NoHeight
    /\ attempt_size = 0
    /\ dirty_height = NoHeight
    /\ attempt_result = "none"
    /\ env_retry = NoEnv
    /\ nc_tally = 0
    /\ starts = 0
    /\ exit_at = "none"
    /\ in_flight = FALSE

Init ==
    /\ FreshProcess
    /\ chain \in Chains
    /\ tip = NoHeight
    /\ db \in InitialDbs
    /\ attempt_db = db
    /\ start_height = db.chain_state
    /\ crash_pc = "none"
    /\ restarts = 0
    /\ commit_log = <<>>

\* ----------------------------------------------------------------- helpers
must_exit(handle) == handle

Running == pc \notin {"crashed", "done", "failed"}

\* main returns Err(kind): the process exits with a nonzero code.
MainFails(kind) ==
    /\ pc' = "failed"
    /\ main_result' = kind

\* ---------------------------------------------------------------- startup
\* AppState::new(database_url)
AppStateNewOk ==
    /\ pc = "main"
    /\ pc' = "run_migrations"
    /\ UNCHANGED << exit_handle, db, txn, chain, tip, block_height, mem_vars,
                    loop_vars, main_result, restarts, mig_vars, hist_vars >>

AppStateNewErr ==
    /\ pc = "main"
    /\ MainFails("db_error")
    /\ UNCHANGED << exit_handle, db, txn, chain, tip, block_height, mem_vars,
                    loop_vars, restarts, mig_vars, hist_vars >>

\* run_migrations: read DATABASE_MAX_MIGRATION_RETRY
RunMigrationsEnter ==
    /\ pc = "run_migrations"
    /\ \E e \in EnvChoices :
          /\ max_retries' = ParseMaxRetries(e)
          /\ mig_n' = ParseMaxRetries(e)
          /\ env_retry' = e
    /\ mig_attempts' = 0
    /\ pc' = "migrate"
    /\ UNCHANGED << exit_handle, db, txn, chain, tip, block_height, mem_vars,
                    loop_vars, main_result, restarts, hist_vars >>

\* get_db_connection() fails: the ? returns the error at once
MigrateConnErr ==
    /\ pc = "migrate"
    /\ MainFails("db_error")
    /\ UNCHANGED << exit_handle, db, txn, chain, tip, block_height, mem_vars,
                    loop_vars, restarts, mig_vars, hist_vars >>

\* the migration succeeds: run_migrations returns Ok
MigrateOk ==
    /\ pc = "migrate"
    /\ mig_attempts' = mig_attempts + 1
    /\ pc' = "migrated"
    /\ UNCHANGED << exit_handle, db, txn, chain, tip, block_height, mem_vars,
                    loop_vars, main_result, restarts, max_retries, mig_n,
                    env_retry, hist_vars >>

\* the migration fails with retries left: decrement, sleep 3 s, loop
\* (faulty variant: the retry is not counted)
MigrateErrRetryUncounted ==
    /\ pc = "migrate"
    /\ max_retries # 0
    /\ mig_attempts' = mig_attempts + 1
    /\ UNCHANGED << pc, exit_handle, db, txn, chain, tip, block_height,
                    mem_vars, loop_vars, main_result, restarts, max_retries,
                    mig_n, env_retry, hist_vars >>

MigrateErrRetry ==
    /\ pc = "migrate"
    /\ max_retries # 0
    /\ mig_attempts' = mig_attempts + 1
    /\ max_retries' = max_retries - 1
    /\ UNCHANGED << pc, exit_handle, db, txn, chain, tip, block_height,
                    mem_vars, loop_vars, main_result, restarts, mig_n,
                    env_retry, hist_vars >>

\* the migration fails with no retry left: run_migrations returns the error
MigrateErrGiveUp ==
    /\ pc = "migrate"
    /\ max_retries = 0
    /\ mig_attempts' = mig_attempts + 1
    /\ MainFails("db_error")
    /\ UNCHANGED << exit_handle, db, txn, chain, tip, block_height, mem_vars,
                    loop_vars, restarts, max_retries, mig_n, env_retry,
                    hist_vars >>

\* load_committed_state: the startup consistency check
\* (faulty variant: only one side of the check)
InvalidDatabaseStateHalf(commitment_tree_len, witness_map_len) ==
    commitment_tree_len = 0 /\ witness_map_len # 0

InvalidDatabaseState(commitment_tree_len, witness_map_len) ==
    \/ commitment_tree_len = 0 /\ witness_map_len # 0
    \/ commitment_tree_len # 0 /\ witness_map_len = 0

\* what the three loads of load_committed_state return
\* (faulty variant: the persisted height is not used)
LoadedHeightNone(d) == NoHeight
LoadedHeight(d) == d.chain_state

LoadedTree(d) == NewTree(DeserializeTree(d.commitment_tree))

LoadedWitnessMap(d) == NewWitnessMap(DeserializeWitnessMap(d.witness_map))

\* FollowingHeights::after(last): last + 1, and 0 when nothing is persisted
FollowingHeightsAfter(last) == IF last = NoHeight THEN 0 ELSE last + 1

FollowingHeightsNext(h) == h + 1

ClearMigration ==
    /\ max_retries' = 0
    /\ mig_n' = 0
    /\ mig_attempts' = 0
    /\ env_retry' = NoEnv

\* one of the three queries (or its connection) fails
LoadDbErr ==
    /\ pc = "migrated"
    /\ MainFails("db_error")
    /\ ClearMigration
    /\ UNCHANGED << exit_handle, db, txn, chain, tip, block_height, mem_vars,
                    loop_vars, restarts, hist_vars >>

LoadInvalid ==
    /\ pc = "migrated"
    /\ InvalidDatabaseState(TreeSize(LoadedTree(db)),
                            WitnessMapSize(LoadedWitnessMap(db)))
    /\ MainFails("invalid_database_state")
    /\ ClearMigration
    /\ UNCHANGED << exit_handle, db, txn, chain, tip, block_height, mem_vars,
                    loop_vars, restarts, hist_vars >>

\* the state is accepted; main builds the client and enters the for loop
LoadOk ==
    /\ pc = "migrated"
    /\ ~InvalidDatabaseState(TreeSize(LoadedTree(db)),
                             WitnessMapSize(LoadedWitnessMap(db)))
    /\ commitment_tree' = LoadedTree(db)
    /\ witness_map' = LoadedWitnessMap(db)
    /\ block_height' = FollowingHeightsAfter(LoadedHeight(db))
    /\ pc' = "loop"
    /\ ClearMigration
    /\ UNCHANGED << exit_handle, db, txn, chain, tip, loop_vars, main_result,
                    restarts, hist_vars >>

\* ------------------------------------------------------- the follower loop
\* for block_height in FollowingHeights::after(..): if must_exit { break }
LoopBreak ==
    /\ pc = "loop"
    /\ must_exit(exit_handle)
    /\ pc' = "done"
    /\ main_result' = "ok"
    /\ UNCHANGED << exit_handle, db, txn, chain, tip, block_height, mem_vars,
                    loop_vars, restarts, mig_vars, hist_vars >>

\* The closure of RetryIf is called: an attempt at block_height starts.
StartAttempt ==
    /\ pc' = "attempt"
    /\ attempt_db' = db
    /\ first_attempt' = IF first_attempt = NoHeight THEN block_height
                        ELSE first_attempt
    /\ block_data' = <<>>
    /\ ti' = 0 /\ mi' = 0 /\ oi' = 0
    /\ tx_notes_index' = <<>>
    /\ shielded_txs' = {}
    /\ attempt_size' = 0
    /\ starts' = IF nc_tally = Untracked THEN 0 ELSE starts + 1
    /\ UNCHANGED << exit_handle, db, txn, chain, tip, block_height, mem_vars,
                    main_result, restarts, mig_vars, commit_log, dirty_height,
                    attempt_result, run_vars, nc_tally, exit_vars >>

\* RetryIf::spawn runs the action for the first time
\* (faulty variant: the flag is not checked at the top of the iteration)
LoopSpawnUnchecked ==
    /\ pc = "loop"
    /\ StartAttempt

LoopSpawn ==
    /\ pc = "loop"
    /\ ~must_exit(exit_handle)
    /\ StartAttempt

\* The attempt returns Err(kind) to RetryIf.
AttemptFails(kind) ==
    /\ pc' = "attempt_err"
    /\ attempt_result' = kind
    /\ dirty_height' = IF commitment_tree.tree # commitment_tree.checkpoint
                     THEN block_height ELSE dirty_height
    /\ nc_tally' = IF kind = "not_committed" /\ nc_tally < MaxTries
                  THEN nc_tally + 1 ELSE Untracked
    /\ starts' = IF nc_tally' = Untracked THEN 0 ELSE starts
    /\ in_flight' = FALSE

\* the retry condition |_| !must_exit(&exit_handle), then the (jittered) delay
\* (faulty variant: the negation is missing)
RetryConditionInverted == must_exit(exit_handle)

RetryCondition == ~must_exit(exit_handle)

RetryAgain ==
    /\ pc = "attempt_err"
    /\ RetryCondition
    /\ pc' = "sleep"
    /\ UNCHANGED << exit_handle, db, txn, chain, tip, block_height, mem_vars,
                    loop_vars, main_result, restarts, mig_vars, hist_vars >>

RetryStop ==
    /\ pc = "attempt_err"
    /\ ~RetryCondition
    /\ pc' = "spawn_done"
    /\ UNCHANGED << exit_handle, db, txn, chain, tip, block_height, mem_vars,
                    loop_vars, main_result, restarts, mig_vars, hist_vars >>

\* the delay is over: RetryIf calls the closure again
SleepDone ==
    /\ pc = "sleep"
    /\ StartAttempt

\* RetryIf returned (its result is dropped): the iterator gives the next height
LoopNext ==
    /\ pc = "spawn_done"
    /\ block_height' = FollowingHeightsNext(block_height)
    /\ pc' = "loop"
    /\ block_data' = <<>>
    /\ ti' = 0 /\ mi' = 0 /\ oi' = 0
    /\ tx_notes_index' = <<>>
    /\ shielded_txs' = {}
    /\ attempt_size' = 0
    /\ nc_tally' = 0
    /\ starts' = 0
    /\ UNCHANGED << exit_handle, db, txn, chain, tip, mem_vars, main_result,
                    restarts, mig_vars, commit_log, first_attempt, attempt_db,
                    dirty_height, attempt_result, run_vars, exit_vars >>

\* ------------------------------- build_and_commit_masp_data_at_height
\* if must_exit(exit_handle) { return Ok(()) }
AttemptExit ==
    /\ pc = "attempt"
    /\ must_exit(exit_handle)
    /\ pc' = "spawn_done"
    /\ attempt_result' = "noop"
    /\ UNCHANGED << exit_handle, db, txn, chain, tip, block_height, mem_vars,
                    loop_vars, main_result, restarts, mig_vars, commit_log,
                    first_attempt, attempt_db, attempt_size, dirty_height, run_vars,
                    tip_vars, exit_vars >>

\* witness_map.rollback()
\* (faulty variant: the rollback is left out)
SkipRollbackWitnessMap ==
    /\ pc = "attempt"
    /\ ~must_exit(exit_handle)
    /\ pc' = "rollback_tree"
    /\ UNCHANGED << exit_handle, db, txn, chain, tip, block_height, mem_vars,
                    loop_vars, main_result, restarts, mig_vars, hist_vars >>

\* (faulty variant: the attempt does not check the flag first)
RollbackWitnessMapUnchecked ==
    /\ pc = "attempt"
    /\ witness_map' = WitnessMapRollback(witness_map)
    /\ pc' = "rollback_tree"
    /\ UNCHANGED << exit_handle, db, txn, chain, tip, block_height,
                    commitment_tree, loop_vars, main_result, restarts,
                    mig_vars, hist_vars >>

\* (faulty variant: the tree is rolled back in the place of the witness map)
RollbackTreeForWitnessMap ==
    /\ pc = "attempt"
    /\ ~must_exit(exit_handle)
    /\ commitment_tree' = TreeRollback(commitment_tree)
    /\ pc' = "rollback_tree"
    /\ UNCHANGED << exit_handle, db, txn, chain, tip, block_height,
                    witness_map, loop_vars, main_result, restarts,
                    mig_vars, hist_vars >>

RollbackWitnessMap ==
    /\ pc = "attempt"
    /\ ~must_exit(exit_handle)
    /\ witness_map' = WitnessMapRollback(witness_map)
    /\ pc' = "rollback_tree"
    /\ UNCHANGED << exit_handle, db, txn, chain, tip, block_height,
                    commitment_tree, loop_vars, main_result, restarts,
                    mig_vars, hist_vars >>

\* commitment_tree.rollback()
\* (faulty variant: the rollback is left out)
SkipRollbackTree ==
    /\ pc = "rollback_tree"
    /\ pc' = "get_conn"
    /\ attempt_size' = TreeSize(commitment_tree)
    /\ UNCHANGED << exit_handle, db, txn, chain, tip, block_height, mem_vars,
                    loop_vars, main_result, restarts, mig_vars, commit_log,
                    first_attempt, attempt_db, dirty_height, attempt_result, run_vars,
                    tip_vars, exit_vars >>

RollbackTree ==
    /\ pc = "rollback_tree"
    /\ commitment_tree' = TreeRollback(commitment_tree)
    /\ pc' = "get_conn"
    /\ attempt_size' = TreeSize(commitment_tree')
    /\ UNCHANGED << exit_handle, db, txn, chain, tip, block_height,
                    witness_map, loop_vars, main_result, restarts, mig_vars,
                    commit_log, first_attempt, attempt_db, dirty_height,
                    attempt_result, run_vars, tip_vars, exit_vars >>

\* app_state.get_db_connection().await.into_db_error()?
GetConnOk ==
    /\ pc = "get_conn"
    /\ pc' = "is_block_committed"
    /\ UNCHANGED << exit_handle, db, txn, chain, tip, block_height, mem_vars,
                    loop_vars, main_result, restarts, mig_vars, hist_vars >>

GetConnErr ==
    /\ pc = "get_conn"
    /\ AttemptFails("db_error")
    /\ UNCHANGED << exit_handle, db, txn, chain, tip, block_height, mem_vars,
                    loop_vars, main_result, restarts, mig_vars, commit_log,
                    first_attempt, attempt_db, attempt_size, run_vars, exit_at >>

\* rpc_service::is_block_committed: true iff the node reports a finalized
\* block at that height
BlockCommitted(h) == h <= tip

IsBlockCommittedErr ==
    /\ pc = "is_block_committed"
    /\ AttemptFails("rpc_error")
    /\ UNCHANGED << exit_handle, db, txn, chain, tip, block_height, mem_vars,
                    loop_vars, main_result, restarts, mig_vars, commit_log,
                    first_attempt, attempt_db, attempt_size, run_vars, exit_at >>

\* (faulty variant: the answer false is not acted upon)
IsBlockCommittedFalseIgnored ==
    /\ pc = "is_block_committed"
    /\ ~BlockCommitted(block_height)
    /\ pc' = "query"
    /\ UNCHANGED << exit_handle, db, txn, chain, tip, block_height, mem_vars,
                    loop_vars, main_result, restarts, mig_vars, hist_vars >>

IsBlockCommittedFalse ==
    /\ pc = "is_block_committed"
    /\ ~BlockCommitted(block_height)
    /\ AttemptFails("not_committed")
    /\ UNCHANGED << exit_handle, db, txn, chain, tip, block_height, mem_vars,
                    loop_vars, main_result, restarts, mig_vars, commit_log,
                    first_attempt, attempt_db, attempt_size, run_vars, exit_at >>

\* (faulty variant: the test of the answer is inverted)
IsBlockCommittedTrueRejected ==
    /\ pc = "is_block_committed"
    /\ BlockCommitted(block_height)
    /\ AttemptFails("not_committed")
    /\ UNCHANGED << exit_handle, db, txn, chain, tip, block_height, mem_vars,
                    loop_vars, main_result, restarts, mig_vars, commit_log,
                    first_attempt, attempt_db, attempt_size, run_vars, exit_at >>

IsBlockCommittedTrue ==
    /\ pc = "is_block_committed"
    /\ BlockCommitted(block_height)
    /\ pc' = "query"
    /\ UNCHANGED << exit_handle, db, txn, chain, tip, block_height, mem_vars,
                    loop_vars, main_result, restarts, mig_vars, hist_vars >>

\* cometbft_service::query_masp_txs_in_block
QueryMaspTxsInBlock(h) == BlockOf(h, chain[h])

QueryErr ==
    /\ pc = "query"
    /\ AttemptFails("rpc_error")
    /\ UNCHANGED << exit_handle, db, txn, chain, tip, block_height, mem_vars,
                    loop_vars, main_result, restarts, mig_vars, commit_log,
                    first_attempt, attempt_db, attempt_size, run_vars, exit_at >>

\* the block data is fetched; shielded_txs and tx_notes_index start empty
\* (faulty variant: the note index starts from the persisted rows)
QueryOkNotesFromStorage ==
    /\ pc = "query"
    /\ block_data' = QueryMaspTxsInBlock(block_height)
    /\ shielded_txs' = {}
    /\ tx_notes_index' = db.notes_index
    /\ ti' = 1 /\ mi' = 0 /\ oi' = 0
    /\ pc' = "process"
    /\ UNCHANGED << exit_handle, db, txn, chain, tip, block_height, mem_vars,
                    main_result, restarts, mig_vars, hist_vars >>

QueryOk ==
    /\ pc = "query"
    /\ block_data' = QueryMaspTxsInBlock(block_height)
    /\ shielded_txs' = {}
    /\ tx_notes_index' = <<>>
    /\ ti' = 1 /\ mi' = 0 /\ oi' = 0
    /\ pc' = "process"
    /\ UNCHANGED << exit_handle, db, txn, chain, tip, block_height, mem_vars,
                    main_result, restarts, mig_vars, hist_vars >>

\* ----------------------------------- the loop over the masp txs of the block
\* IndexedTx { block_height, block_index: TxIndex(idx as u32), masp_tx_index }.
\* idx is the index of a transaction in its block: it is far below 2^32, so
\* the cast to u32 keeps it.
\* (faulty variant: the place in the list instead of idx)
IndexedTxByPlace(h, idx, place, m) ==
    [block_height |-> h, block_index |-> place - 1, masp_tx_index |-> m]

IndexedTxOf(h, idx, place, m) ==
    [block_height |-> h, block_index |-> idx, masp_tx_index |-> m]

CurTx == block_data[ti]
CurIdx == CurTx[1]
CurMaspTxs == CurTx[2]
CurMaspTx == CurMaspTxs[mi + 1]
CurIndexedTx == IndexedTxOf(block_height, CurIdx, ti, mi)

InTransaction == ti >= 1 /\ ti <= Len(block_data)
InMaspTx == InTransaction /\ mi < Len(CurMaspTxs)
InOutput == InMaspTx /\ oi < Len(CurMaspTx)

\* TxNoteMap: one row per output, in insertion order
NoteRow(itx, pos) ==
    << FALSE, itx.block_height, itx.block_index, itx.masp_tx_index, pos >>

\* update_witness_map, for one output commitment c: append the leaf, update
\* every witness, insert the witness of the new leaf, record its position.
UpdateWitnessMapOutput(t, wm, notes, itx, c) ==
    LET pos == TreeSize(t)
        t2  == TreeAppend(t, c)
        wm2 == WitnessMapUpdate(wm, c)
        wm3 == WitnessMapInsert(wm2, pos, WitnessFromTree(t2.tree))
    IN  [ tree  |-> t2,
          wm    |-> wm3,
          notes |-> Append(notes, NoteRow(itx, pos)) ]

UpdateOutput ==
    /\ pc = "process"
    /\ InOutput
    /\ ~TreeFull(commitment_tree.tree)
    /\ LET r == UpdateWitnessMapOutput(commitment_tree, witness_map,
                                       tx_notes_index, CurIndexedTx,
                                       CurMaspTx[oi + 1])
       IN  /\ commitment_tree' = r.tree
           /\ witness_map' = r.wm
           /\ tx_notes_index' = r.notes
    /\ oi' = oi + 1
    /\ UNCHANGED << pc, exit_handle, db, txn, chain, tip, block_height,
                    block_data, ti, mi, shielded_txs, main_result, restarts,
                    mig_vars, hist_vars >>

\* update_witness_map(..).into_masp_error()?: the tree is full, or the leaf
\* cannot be extracted
\* (faulty variant: the error is dropped and the loop goes on)
UpdateOutputErrIgnored ==
    /\ pc = "process"
    /\ InOutput
    /\ oi' = oi + 1
    /\ UNCHANGED << pc, exit_handle, db, txn, chain, tip, block_height,
                    mem_vars, block_data, ti, mi, tx_notes_index,
                    shielded_txs, main_result, restarts, mig_vars, hist_vars >>

UpdateOutputErr ==
    /\ pc = "process"
    /\ InOutput
    /\ AttemptFails("masp_error")
    /\ UNCHANGED << exit_handle, db, txn, chain, tip, block_height, mem_vars,
                    loop_vars, main_result, restarts, mig_vars, commit_log,
                    first_attempt, attempt_db, attempt_size, run_vars, exit_at >>

\* BTreeMap::insert: a row of the same key is replaced
BTreeInsert(m, k, v) == { r \in m : r.key # k } \cup { [key |-> k, tx |-> v] }

\* shielded_txs.insert(indexed_tx, masp_tx), and the next masp tx
InsertShieldedTx ==
    /\ pc = "process"
    /\ InMaspTx
    /\ oi = Len(CurMaspTx)
    /\ shielded_txs' = BTreeInsert(shielded_txs, CurIndexedTx, CurMaspTx)
    /\ mi' = mi + 1
    /\ oi' = 0
    /\ UNCHANGED << pc, exit_handle, db, txn, chain, tip, block_height,
                    mem_vars, block_data, ti, tx_notes_index, main_result,
                    restarts, mig_vars, hist_vars >>

\* the masp txs of the transaction are done: the next transaction
NextTransaction ==
    /\ pc = "process"
    /\ InTransaction
    /\ mi = Len(CurMaspTxs)
    /\ ti' = ti + 1
    /\ mi' = 0
    /\ UNCHANGED << pc, exit_handle, db, txn, chain, tip, block_height,
                    mem_vars, block_data, oi, tx_notes_index, shielded_txs,
                    main_result, restarts, mig_vars, hist_vars >>

\* ------------------------------------------------------------------ commit
\* ChainState::new(block_height)
\* (faulty variant: not the height of the iteration)
ChainStateNewZero(h) == [block_height |-> 0]
ChainStateNew(h) == [block_height |-> h]

\* the arguments main passes to db_service::commit
\* (faulty variant: an empty note index is passed)
CommitArgsNoNotes ==
    [ chain_state     |-> ChainStateNew(block_height),
      commitment_tree |-> commitment_tree,
      witness_map     |-> witness_map,
      tx_notes_index  |-> <<>>,
      shielded_txs    |-> shielded_txs ]

\* (faulty variant: a new witness map is passed in the place of the handle)
CommitArgsNewWitnessMap ==
    [ chain_state     |-> ChainStateNew(block_height),
      commitment_tree |-> commitment_tree,
      witness_map     |-> NewWitnessMap(EmptyMap),
      tx_notes_index  |-> tx_notes_index,
      shielded_txs    |-> shielded_txs ]

CommitArgs ==
    [ chain_state     |-> ChainStateNew(block_height),
      commitment_tree |-> commitment_tree,
      witness_map     |-> witness_map,
      tx_notes_index  |-> tx_notes_index,
      shielded_txs    |-> shielded_txs ]

ShieldedTxRow(r) ==
    [ block_height  |-> r.key.block_height,
      block_index   |-> r.key.block_index,
      masp_tx_index |-> r.key.masp_tx_index,
      bytes         |-> r.tx ]

\* db_service::commit: what one storage transaction writes
DbCommit(d, a) ==
    [ chain_state     |-> a.chain_state.block_height,
      commitment_tree |-> SerializeTree(a.commitment_tree.tree),
      witness_map     |-> SerializeWitnessMap(a.witness_map.map),
      notes_index     |-> d.notes_index \o a.tx_notes_index,
      shielded_txs    |-> d.shielded_txs \cup
                            { ShieldedTxRow(r) : r \in a.shielded_txs } ]

\* the for loop over block_data.transactions is over: commit is called and
\* its storage transaction is open
\* (faulty variant: commit is called before the loop is over)
CommitCallEarly ==
    /\ pc = "process"
    /\ txn' = << DbCommit(db, CommitArgs) >>
    /\ pc' = "commit"
    /\ UNCHANGED << exit_handle, db, chain, tip, block_height, mem_vars,
                    loop_vars, main_result, restarts, mig_vars, hist_vars >>

CommitCall ==
    /\ pc = "process"
    /\ ~InTransaction
    /\ txn' = << DbCommit(db, CommitArgs) >>
    /\ pc' = "commit"
    /\ UNCHANGED << exit_handle, db, chain, tip, block_height, mem_vars,
                    loop_vars, main_result, restarts, mig_vars, hist_vars >>

\* How the attempt ends once the storage transaction is durable.
\* (faulty variant: an error is returned after the commit)
CommitReturnsErr ==
    /\ pc' = "attempt_err"
    /\ attempt_result' = "db_error"

CommitReturns ==
    /\ pc' = "spawn_done"
    /\ attempt_result' = "committed"

\* the transaction commits: all rows are durable, the in-memory tree and
\* witness map become the checkpoint, the attempt returns Ok(())
CommitOk ==
    /\ pc = "commit"
    /\ db' = txn[1]
    /\ txn' = <<>>
    /\ commitment_tree' = TreeCheckpoint(commitment_tree)
    /\ witness_map' = WitnessMapCheckpoint(witness_map)
    /\ commit_log' = Append(commit_log, block_height)
    /\ CommitReturns
    /\ in_flight' = FALSE
    /\ UNCHANGED << exit_handle, chain, tip, block_height, loop_vars,
                    main_result, restarts, mig_vars, first_attempt,
                    attempt_db, attempt_size, dirty_height, run_vars,
                    tip_vars, exit_at >>

\* the transaction aborts: nothing is written, .into_db_error()? returns
CommitErr ==
    /\ pc = "commit"
    /\ txn' = <<>>
    /\ AttemptFails("db_error")
    /\ UNCHANGED << exit_handle, db, chain, tip, block_height, mem_vars,
                    loop_vars, main_result, restarts, mig_vars, commit_log,
                    first_attempt, attempt_db, attempt_size, run_vars, exit_at >>

\* ------------------------------------------------------------- environment
\* the positions inside the body of an attempt, after its must_exit check
BodyPcs == { "rollback_tree", "get_conn", "is_block_committed", "query",
             "process", "commit" }

\* must_exit_handle: the task that waits for ctrl-c stores true
CtrlC ==
    /\ Running
    /\ ~exit_handle
    /\ exit_handle' = TRUE
    /\ exit_at' = IF pc \in BodyPcs THEN "body"
                 ELSE IF pc = "sleep" THEN "sleep" ELSE "idle"
    /\ in_flight' = (pc \in BodyPcs)
    /\ UNCHANGED << pc, db, txn, chain, tip, block_height, mem_vars,
                    loop_vars, main_result, restarts, mig_vars, commit_log,
                    first_attempt, attempt_db, attempt_size, dirty_height,
                    attempt_result, run_vars, tip_vars >>

\* the chain finalizes its next block
AdvanceTip ==
    /\ tip < MaxHeight
    /\ tip' = tip + 1
    /\ UNCHANGED << pc, exit_handle, db, txn, chain, block_height, mem_vars,
                    loop_vars, main_result, restarts, mig_vars, hist_vars >>

\* Everything a process holds in memory is lost; an open storage transaction
\* is discarded.
MemoryLost ==
    /\ exit_handle' = FALSE
    /\ txn' = <<>>
    /\ max_retries' = 0
    /\ mig_n' = 0
    /\ mig_attempts' = 0
    /\ block_height' = NoHeight
    /\ commitment_tree' = NewTree(<<>>)
    /\ witness_map' = NewWitnessMap(EmptyMap)
    /\ block_data' = <<>>
    /\ ti' = 0 /\ mi' = 0 /\ oi' = 0
    /\ tx_notes_index' = <<>>
    /\ shielded_txs' = {}
    /\ first_attempt' = NoHeight
    /\ attempt_db' = db
    /\ attempt_size' = 0
    /\ attempt_result' = "none"
    /\ start_height' = db.chain_state
    /\ env_retry' = NoEnv
    /\ nc_tally' = 0
    /\ starts' = 0
    /\ exit_at' = "none"
    /\ in_flight' = FALSE

\* the process is killed at any point
Crash ==
    /\ Running
    /\ pc' = "crashed"
    /\ main_result' = "crashed"
    /\ crash_pc' = pc
    /\ MemoryLost
    /\ UNCHANGED << db, chain, tip, restarts, commit_log, dirty_height >>

\* the process is started again on the same storage
Restart ==
    /\ ~Running
    /\ restarts < MaxRestarts
    /\ restarts' = restarts + 1
    /\ pc' = "main"
    /\ main_result' = "running"
    /\ crash_pc' = "none"
    /\ MemoryLost
    /\ UNCHANGED << db, chain, tip, commit_log, dirty_height >>

Next ==
    \/ AppStateNewOk \/ AppStateNewErr
    \/ RunMigrationsEnter \/ MigrateConnErr \/ MigrateOk
    \/ MigrateErrRetry \/ MigrateErrGiveUp
    \/ LoadDbErr \/ LoadInvalid \/ LoadOk
    \/ LoopBreak \/ LoopSpawn \/ RetryAgain \/ RetryStop \/ SleepDone
    \/ LoopNext
    \/ AttemptExit \/ RollbackWitnessMap \/ RollbackTree
    \/ GetConnOk \/ GetConnErr
    \/ IsBlockCommittedErr \/ IsBlockCommittedFalse \/ IsBlockCommittedTrue
    \/ QueryErr \/ QueryOk
    \/ UpdateOutput \/ UpdateOutputErr \/ InsertShieldedTx \/ NextTransaction
    \/ CommitCall \/ CommitOk \/ CommitErr
    \/ CtrlC \/ AdvanceTip \/ Crash \/ Restart

Spec == Init /\ [][Next]_vars

\* ======================================================================
\* The reference run: what storage holds after the blocks 0..k-1 have each
\* been committed once, in order, with no failure.
\* ======================================================================
RECURSIVE ConcatAll(_)
ConcatAll(ss) == IF ss = <<>> THEN <<>> ELSE Head(ss) \o ConcatAll(Tail(ss))

\* the outputs of a transaction of block h, in masp-tx order then output order
TransactionOutputs(h, tx) ==
    ConcatAll([m \in 1..Len(tx[2]) |->
                 [o \in 1..Len(tx[2][m]) |->
                    [h |-> h, idx |-> tx[1], m |-> m - 1, c |-> tx[2][m][o]]]])

\* the outputs of block h, in block order
BlockOutputs(h) ==
    LET b == BlockOf(h, chain[h])
    IN  ConcatAll([i \in 1..Len(b) |-> TransactionOutputs(h, b[i])])

\* the shielded transactions of block h
BlockShieldedTxs(h) ==
    LET b == BlockOf(h, chain[h])
    IN  UNION { { [block_height |-> h, block_index |-> b[i][1],
                   masp_tx_index |-> m - 1, bytes |-> b[i][2][m]] :
                     m \in 1..Len(b[i][2]) } : i \in 1..Len(b) }

RECURSIVE CleanOutputs(_)
CleanOutputs(k) ==
    IF k = 0 THEN <<>> ELSE CleanOutputs(k - 1) \o BlockOutputs(k - 1)

CleanLeaves(k) ==
    LET outs == CleanOutputs(k)
    IN  [i \in 1..Len(outs) |-> outs[i].c]

CleanNotes(k) ==
    LET outs == CleanOutputs(k)
    IN  [i \in 1..Len(outs) |->
            << FALSE, outs[i].h, outs[i].idx, outs[i].m, i - 1 >>]

CleanWitnessRows(k) ==
    LET l == CleanLeaves(k)
    IN  { [position |-> p,
           witness  |-> [tree   |-> SubSeq(l, 1, p + 1),
                         filled |-> SubSeq(l, p + 2, Len(l))]] :
             p \in 0..(Len(l) - 1) }

CleanDb(k) ==
    IF k = 0 THEN EmptyDb
    ELSE LET l == CleanLeaves(k) IN
         [ chain_state     |-> k - 1,
           commitment_tree |-> << [bytes |-> l, size |-> Len(l)] >>,
           witness_map     |-> CleanWitnessRows(k),
           notes_index     |-> CleanNotes(k),
           shielded_txs    |-> UNION { BlockShieldedTxs(h) : h \in 0..(k - 1) } ]

Last(s) == s[Len(s)]

\* the positions of an attempt, from the call of the closure to its return
AttemptPcs ==
    { "attempt", "rollback_tree", "get_conn", "is_block_committed", "query",
      "process", "commit", "attempt_err", "sleep" }

\* ======================================================================
\* Claims
\* ======================================================================

\* C1 -- Atomic commit: in every reachable state, also after a crash or a
\* shutdown signal at any point of an attempt or of commit, persisted storage
\* equals the storage after some whole number of completed commits (or is the
\* storage the indexer was started on and refused); it is never a mix of the
\* artifacts of a block.
C1_AtomicCommit ==
    \/ db \in InvalidDbs
    \/ \E k \in 0..(MaxHeight + 1) : db.chain_state = k - 1 /\ db = CleanDb(k)

\* C1 witness: the process was killed while the storage transaction of the
\* commit of block 1 was open, block 0 (with outputs) being committed.
C1_Witness ==
    /\ crash_pc = "commit"
    /\ db.chain_state = 0
    /\ db.notes_index # <<>>
    /\ Len(chain[1]) > 0

\* last_synced is the height of the most recent successful commit, and is
\* undefined when there was none
C2_LastSyncedIsLastCommit ==
    IF commit_log = <<>> THEN db.chain_state = NoHeight
    ELSE db.chain_state = Last(commit_log)

\* C2 -- Monotone progress: the persisted last_synced height never decreases,
\* and whenever it is defined it is the height of the most recent successful
\* commit.
C2_MonotoneProgress ==
    /\ [][db'.chain_state >= db.chain_state]_vars
    /\ []C2_LastSyncedIsLastCommit

\* C2 witness: two commits, with failed attempts and a restart in between.
C2_Witness ==
    /\ Len(commit_log) = 2
    /\ db.chain_state = 1
    /\ restarts >= 1
    /\ dirty_height # NoHeight

\* C3 -- A failed attempt writes nothing: whenever the attempt returns an
\* error, of any kind, persisted storage is what it was when the attempt
\* started and no storage transaction is left open.
C3_FailedAttemptWritesNothing ==
    pc = "attempt_err" => (db = attempt_db /\ txn = <<>>)

\* C3 witness: commit fails for block 1, whose outputs were appended, after
\* block 0 was committed.
C3_Witness ==
    /\ pc = "attempt_err"
    /\ attempt_result = "db_error"
    /\ tx_notes_index # <<>>
    /\ block_height = 1
    /\ db.chain_state = 0

\* C4 -- Heights in ascending order, none skipped: an attempt at a height is
\* running only if the height before it is the persisted last_synced height,
\* the commits are of the heights 0, 1, 2, ... in this order, and that also
\* after a shutdown no-op or after retrying stopped for shutdown.
C4_AscendingNoSkip ==
    /\ pc \in AttemptPcs => block_height = db.chain_state + 1
    /\ \A i \in 1..Len(commit_log) : commit_log[i] = i - 1

\* C4 witness: block 0 is committed, the attempt at height 1 returned as a
\* shutdown no-op, the loop went on to height 2 and left there.
C4_Witness ==
    /\ pc = "done"
    /\ attempt_result = "noop"
    /\ commit_log = << 0 >>
    /\ block_height = 2

\* the persisted notes_index rows of block h
NotesRowsOf(h) == SelectSeq(db.notes_index, LAMBDA r : r[2] = h)

\* C5 -- Exactly-once persistence under crash and restart: the first height
\* a process attempts is the persisted last_synced + 1 (0 if none), no height
\* is committed twice over the whole history, and the notes_index rows of
\* every height up to last_synced are there exactly once.
C5_ExactlyOnce ==
    /\ first_attempt # NoHeight =>
          first_attempt = (IF start_height = NoHeight THEN 0 ELSE start_height + 1)
    /\ \A i, j \in 1..Len(commit_log) : i # j => commit_log[i] # commit_log[j]
    /\ \A h \in 0..db.chain_state :
          /\ Len(NotesRowsOf(h)) = Len(BlockOutputs(h))
          /\ Cardinality({ r \in db.shielded_txs : r.block_height = h })
                = Cardinality(BlockShieldedTxs(h))

\* C5 witness: block 0 (with outputs) was committed, the process crashed
\* and was restarted, and the new process attempted height 1 first and
\* committed it.
C5_Witness ==
    /\ restarts >= 1
    /\ start_height = 0
    /\ first_attempt = 1
    /\ commit_log = << 0, 1 >>
    /\ Len(BlockOutputs(0)) > 0

\* the leaves of the persisted tree
CommittedLeaves == DeserializeTree(db.commitment_tree)

\* C6 -- Witness/tree consistency: in the committed state, every witness of
\* the witness map is the witness of its position, has taken in exactly the
\* leaves appended to the tree after that position, and yields the root of
\* the committed tree.
C6_WitnessTreeConsistency ==
    db \notin InvalidDbs =>
        \A r \in db.witness_map :
            /\ r.position < Len(CommittedLeaves)
            /\ WitnessPosition(r.witness) = r.position
            /\ r.witness.tree = SubSeq(CommittedLeaves, 1, r.position + 1)
            /\ r.witness.filled =
                  SubSeq(CommittedLeaves, r.position + 2, Len(CommittedLeaves))
            /\ WitnessRoot(r.witness) = TreeRoot(CommittedLeaves)

\* C6 witness: two blocks with outputs are committed, the second after a
\* failed attempt that had appended leaves.
C6_Witness ==
    /\ db.chain_state = 1
    /\ dirty_height = 1
    /\ Cardinality(db.witness_map) >= 3
    /\ Len(BlockOutputs(0)) > 0
    /\ Len(BlockOutputs(1)) > 0

\* C7 -- Attempts are idempotent, the result is deterministic: the tree (and
\* its root), the witness map and the notes_index rows persisted by the
\* commit of height H are those of the run with no failure, whatever failed
\* attempts, retries, crashes and restarts came before; so is what a commit
\* in progress is about to write.
C7_Deterministic ==
    /\ db.chain_state # NoHeight =>
          LET l == CleanLeaves(db.chain_state + 1)
          IN  /\ CommittedLeaves = l
              /\ TreeRoot(CommittedLeaves) = TreeRoot(l)
              /\ db.witness_map = CleanWitnessRows(db.chain_state + 1)
              /\ db.notes_index = CleanNotes(db.chain_state + 1)
    /\ pc = "commit" =>
          /\ txn[1].commitment_tree = CleanDb(block_height + 1).commitment_tree
          /\ txn[1].witness_map = CleanWitnessRows(block_height + 1)
          /\ txn[1].notes_index = CleanNotes(block_height + 1)

\* C7 witness: height 1 is committed by a restarted process after an attempt
\* at height 1 failed with leaves appended.
C7_Witness ==
    /\ db.chain_state = 1
    /\ dirty_height = 1
    /\ restarts >= 1
    /\ attempt_result = "committed"
    /\ Len(BlockOutputs(1)) > 1

\* C8 -- A successful commit moves the checkpoint: once the two rollbacks at
\* the start of an attempt are done, the in-memory tree and witness map are
\* the persisted ones, i.e. those loaded at startup or left by the most
\* recent successful commit: the first attempt after a commit keeps the
\* committed leaves and witnesses, an attempt after a failed one has none of
\* its leaves.
C8_RollbackTarget ==
    pc = "get_conn" =>
        /\ commitment_tree.tree = DeserializeTree(db.commitment_tree)
        /\ witness_map.map = DeserializeWitnessMap(db.witness_map)
        /\ TreeSize(commitment_tree) = Cardinality(db.witness_map)

\* C8 witness: the first attempt at height 1, in the process that has just
\* committed height 0 with outputs, has done its rollbacks.
C8_Witness ==
    /\ pc = "get_conn"
    /\ block_height = 1
    /\ start_height = NoHeight
    /\ attempt_result = "committed"
    /\ commit_log = << 0 >>
    /\ TreeSize(commitment_tree) > 0

\* the sizes held by storage, and the case the startup check is about
PersistedTreeSize ==
    IF db.commitment_tree = <<>> THEN 0 ELSE db.commitment_tree[1].size

PersistedWitnessCount == Cardinality(db.witness_map)

ExactlyOneZero ==
    (PersistedTreeSize = 0) # (PersistedWitnessCount = 0)

\* C9 -- Startup guard: load_committed_state returns the invalid-database-
\* state error only if exactly one of the persisted tree size and witness
\* count is zero, and in that case it never returns a state (the follower
\* loop is not entered); a state it accepts is returned as the persisted
\* tree and witness map together with the height that follows last_synced.
C9_StartupGuard ==
    [][ pc = "migrated" =>
          /\ (main_result' = "invalid_database_state" =>
                 ExactlyOneZero /\ pc' = "failed")
          /\ (pc' = "loop" =>
                 /\ ~ExactlyOneZero
                 /\ commitment_tree'.tree = DeserializeTree(db.commitment_tree)
                 /\ witness_map'.map = DeserializeWitnessMap(db.witness_map)
                 /\ block_height' = db.chain_state + 1) ]_vars

\* C9 witness: startup was refused on storage holding a tree and no witness.
C9_Witness ==
    /\ pc = "failed"
    /\ main_result = "invalid_database_state"
    /\ PersistedTreeSize # 0
    /\ PersistedWitnessCount = 0
    /\ first_attempt = NoHeight

\* the rows the outputs of block h give when its first leaf is at position
\* size, and the attempt holding exactly them
ExpectedNoteRows(h, size) ==
    LET outs == BlockOutputs(h)
    IN  [i \in 1..Len(outs) |->
            << FALSE, h, outs[i].idx, outs[i].m, size + i - 1 >>]

AttemptRowsAsExpected ==
    /\ tx_notes_index = ExpectedNoteRows(block_height, attempt_size)
    /\ LET outs == BlockOutputs(block_height)
       IN  /\ TreeSize(commitment_tree) = attempt_size + Len(outs)
           /\ \A i \in 1..Len(outs) :
                  commitment_tree.tree[attempt_size + i] = outs[i].c
    /\ { ShieldedTxRow(r) : r \in shielded_txs } = BlockShieldedTxs(block_height)
    /\ Cardinality(shielded_txs) = Cardinality(BlockShieldedTxs(block_height))

\* C10 -- Leaf positions and note index: when the attempt at height H, begun
\* at tree size S, calls commit and when it has committed, the outputs of the
\* block in block order, masp-tx order and output order hold the positions
\* S, S+1, ... of the tree, the note index has one row (false, H, tx index,
\* masp-tx index, position) per output in that order, and the shielded txs
\* are one per shielded transaction, keyed (H, tx index, masp-tx index); the
\* commit writes exactly these rows.
C10_PositionsAndNoteIndex ==
    /\ pc = "commit" =>
          /\ AttemptRowsAsExpected
          /\ txn[1].notes_index = db.notes_index \o tx_notes_index
    /\ (pc = "spawn_done" /\ attempt_result = "committed") =>
          /\ AttemptRowsAsExpected
          /\ NotesRowsOf(block_height) = tx_notes_index
          /\ { r \in db.shielded_txs : r.block_height = block_height }
                = BlockShieldedTxs(block_height)

\* C10 witness: block 1 with transactions 0 (two outputs) and 2 (one output)
\* is committed on top of a tree that held leaves already.
C10_Witness ==
    /\ pc = "spawn_done"
    /\ attempt_result = "committed"
    /\ block_height = 1
    /\ chain[1] = << <<0, <<2>>>>, <<2, <<1>>>> >>
    /\ attempt_size > 0
    /\ Len(tx_notes_index) = 3

\* ---------------------------------------------------------------- C11
PersistedWitnessKeys(d) == { r.position : r \in d.witness_map }

PersistedSize(d) == Len(DeserializeTree(d.commitment_tree))

\* the commit of a block with n outputs on a committed state of size K and
\* witness keys W leaves size K + n and keys W \cup K..K+n-1
CommitGrows ==
    db' # db =>
        LET K == PersistedSize(db)
            W == PersistedWitnessKeys(db)
            n == Len(BlockOutputs(db'.chain_state))
        IN  /\ db'.chain_state = block_height
            /\ PersistedSize(db') = K + n
            /\ PersistedWitnessKeys(db') = W \cup (K..(K + n - 1))
            /\ W \subseteq PersistedWitnessKeys(db')

\* C11: a commit of block H with n outputs takes the committed tree size
\* from K to K + n and the committed witness keys from W to
\* W \cup {K, ..., K + n - 1}; no committed witness key is ever absent
\* from a later committed state.
C11_GrowthAndRetention == [][CommitGrows]_vars

\* a block with outputs has been committed on a non-empty committed state
C11_Witness ==
    /\ pc = "spawn_done"
    /\ attempt_result = "committed"
    /\ PersistedSize(attempt_db) > 0
    /\ Len(BlockOutputs(block_height)) > 1
    /\ PersistedSize(db) =
          PersistedSize(attempt_db) + Len(BlockOutputs(block_height))

\* ---------------------------------------------------------------- C12
\* C12: in every in-memory state (in the middle of an attempt, after a failed
\* attempt, between the rollback of the witness map and the rollback of the
\* tree) every key of the witness map is below the size of the tree.
C12_WitnessKeysBelowTreeSize ==
    \A p \in DOMAIN witness_map.map :
        p >= 0 /\ p < TreeSize(commitment_tree)

\* C12 witness: after a failed attempt that had appended leaves, the witness
\* map is rolled back to its committed keys and the tree is not yet
\* rolled back.
C12_Witness ==
    /\ pc = "rollback_tree"
    /\ DOMAIN witness_map.map # {}
    /\ witness_map.map = witness_map.checkpoint
    /\ TreeSize(commitment_tree) > Len(commitment_tree.checkpoint)

\* ---------------------------------------------------------------- C13
CommitsOf(h) == Cardinality({ i \in DOMAIN commit_log : commit_log[i] = h })

\* an attempt that found its block not finalized fetched nothing, appended
\* nothing and wrote nothing; no block is fetched or written before it is
\* finalized; k answers "false" in a row and then "true" make k + 1 calls of
\* the attempt and one commit
WaitingAtTipState ==
    /\ (pc = "attempt_err" /\ attempt_result = "not_committed") =>
          /\ ti = 0 /\ block_data = <<>>
          /\ tx_notes_index = <<>> /\ shielded_txs = {}
          /\ commitment_tree.tree = commitment_tree.checkpoint
          /\ witness_map.map = witness_map.checkpoint
          /\ txn = <<>>
          /\ db = attempt_db
    /\ pc \in {"query", "process", "commit"} => BlockCommitted(block_height)
    /\ \A i \in DOMAIN commit_log : BlockCommitted(commit_log[i])
    /\ (pc = "spawn_done" /\ attempt_result = "committed"
          /\ nc_tally # Untracked) =>
          /\ starts = nc_tally + 1
          /\ CommitsOf(block_height) = 1

\* a failure "not finalized" is followed by the delay and by another attempt
\* at the same height; once the attempt has returned the follower takes the
\* next height
WaitingAtTipStep ==
    /\ (pc = "attempt_err" /\ attempt_result = "not_committed"
          /\ ~exit_handle /\ pc' # pc) => pc' \in {"sleep", "crashed"}
    /\ (pc = "sleep" /\ pc' \notin {"sleep", "crashed"}) =>
          pc' = "attempt" /\ block_height' = block_height
    /\ (pc = "spawn_done" /\ pc' = "loop") =>
          block_height' = block_height + 1

\* C13: an attempt in which is_block_committed(H) is false returns an error
\* without fetching, appending or committing; k such attempts in a row
\* followed by a finalized H (and no other failure) are k failed attempts
\* and then exactly one commit of H, after which the follower moves to
\* H + 1; while H is not finalized the follower retries and never writes.
C13_WaitingAtChainTip == []WaitingAtTipState /\ [][WaitingAtTipStep]_vars

\* C13 witness: MaxTries attempts found the block not finalized, the next one
\* committed it.
C13_Witness ==
    /\ pc = "spawn_done"
    /\ attempt_result = "committed"
    /\ nc_tally = MaxTries
    /\ starts = MaxTries + 1
    /\ CommitsOf(block_height) = 1

\* ---------------------------------------------------------------- C14
\* the positions of main inside the for loop
LoopPcs == AttemptPcs \cup {"loop", "attempt_err", "sleep", "spawn_done"}

\* main has returned Ok only with the flag set; main has returned an error
\* only before the loop
UnboundedRetryState ==
    /\ pc = "done" => exit_handle /\ main_result = "ok"
    /\ main_result = "ok" => pc = "done"
    /\ pc = "failed" =>
          /\ first_attempt = NoHeight
          /\ block_height = NoHeight
          /\ main_result \in {"db_error", "invalid_database_state"}

\* after a failed attempt the delay starts exactly when the flag is not set,
\* whatever the number of failures so far; the loop is left only to return Ok
UnboundedRetryStep ==
    /\ pc = "attempt_err" =>
          /\ pc' \in {"attempt_err", "sleep", "spawn_done", "crashed"}
          /\ pc' = "sleep" => ~exit_handle
          /\ pc' = "spawn_done" => exit_handle
    /\ pc \in LoopPcs =>
          /\ pc' \in LoopPcs \cup {"done", "crashed"}
          /\ pc' = "done" => exit_handle /\ pc = "loop"

\* C14: a failed attempt is retried if and only if the shutdown flag is not
\* set when it fails, without a maximum number of retries; no error of a
\* block ends the loop or makes main return an error; once the loop is
\* entered main returns only after the flag is set, and returns success.
C14_UnboundedRetry == []UnboundedRetryState /\ [][UnboundedRetryStep]_vars

\* C14 witness: the delay before one more attempt, after MaxTries failed
\* attempts at the same height.
C14_Witness ==
    /\ pc = "sleep"
    /\ ~exit_handle
    /\ nc_tally = MaxTries
    /\ starts = MaxTries

\* ---------------------------------------------------------------- C15
\* with the flag set, an attempt body runs only if it ran when the flag was
\* set
CancellationState ==
    /\ (exit_handle /\ pc \in BodyPcs) => in_flight /\ exit_at = "body"
    /\ in_flight => exit_handle /\ pc \in BodyPcs

CancellationStep ==
    \* the flag of a live process is never cleared
    /\ (exit_handle /\ pc' \notin {"crashed", "main"}) => exit_handle'
    \* with the flag set only the attempt in flight commits
    /\ (exit_handle /\ db' # db) => in_flight /\ ~in_flight'
    \* with the flag set the attempt returns Ok at once: no rollback, no
    \* RPC, no commit
    /\ (exit_handle /\ pc = "attempt" /\ pc' \notin {"attempt", "crashed"}) =>
          /\ pc' = "spawn_done"
          /\ attempt_result' = "noop"
          /\ UNCHANGED << db, txn, mem_vars, loop_vars, block_height >>
    \* with the flag set the loop does not start an attempt: after a delay
    \* the pending call is made, and that is all
    /\ (exit_handle /\ pc' = "attempt" /\ pc # "attempt") =>
          pc = "sleep" /\ exit_at = "sleep"
    /\ (exit_handle /\ pc = "loop" /\ pc' \notin {"loop", "crashed"}) =>
          pc' = "done"

\* C15: the shutdown flag is never cleared once set.  Set during the delay
\* between retries or while no attempt body runs, no commit follows: the
\* next attempt returns success without rollback, RPC or commit, and the
\* loop exits.  Set while an attempt body runs, at most that attempt can
\* still commit, and the loop exits after it without another attempt.
C15_Cancellation == []CancellationState /\ [][CancellationStep]_vars

\* C15 witness: the flag was set during the delay after a failed attempt;
\* the attempt called after the delay did nothing and main returned.
C15_Witness ==
    /\ pc = "done"
    /\ exit_at = "sleep"
    /\ attempt_result = "noop"
    /\ db = attempt_db
    /\ commitment_tree.tree # commitment_tree.checkpoint

\* ---------------------------------------------------------------- C16
\* The follower under the hypotheses of progress: the process starts on an
\* empty database, its startup succeeds, shutdown is never requested and the
\* process is not killed; the tree has room for the outputs of the chain.
InitLive ==
    /\ Init
    /\ db = EmptyDb
    /\ Len(CleanOutputs(MaxHeight + 1)) <= Pow2(Depth)

\* the steps of main and of the attempt
StepLive ==
    \/ AppStateNewOk \/ RunMigrationsEnter \/ MigrateOk \/ MigrateErrRetry
    \/ LoadOk
    \/ LoopSpawn \/ RetryAgain \/ SleepDone \/ LoopNext
    \/ RollbackWitnessMap \/ RollbackTree
    \/ GetConnOk \/ GetConnErr
    \/ IsBlockCommittedErr \/ IsBlockCommittedFalse \/ IsBlockCommittedTrue
    \/ QueryErr \/ QueryOk
    \/ UpdateOutput \/ UpdateOutputErr \/ InsertShieldedTx \/ NextTransaction
    \/ CommitCall \/ CommitOk \/ CommitErr

NextLive == StepLive \/ AdvanceTip

\* the number of outputs of the blocks of a shape, and the largest of them
ShapeOutputs(shape) ==
    Len(ConcatAll([i \in 1..Len(shape) |->
                     TransactionOutputs(0, TransactionOf(0, shape[i]))]))

MaxBlockOutputs ==
    LET counts == { ShapeOutputs(BlockShapes[k]) : k \in DOMAIN BlockShapes }
    IN  CHOOSE n \in counts : \A m \in counts : m <= n

\* Fair scheduling: the process keeps taking steps and the chain keeps
\* finalizing blocks.  Each operation that can fail succeeds eventually:
\* tried again and again, it succeeds at some try (for update_witness_map,
\* at each output of the block).
FairLive ==
    /\ WF_vars(StepLive)
    /\ WF_vars(AdvanceTip)
    /\ SF_vars(MigrateOk)
    /\ SF_vars(GetConnOk)
    /\ SF_vars(IsBlockCommittedTrue)
    /\ SF_vars(QueryOk)
    /\ \A j \in 0..(MaxBlockOutputs - 1) :
          SF_vars(UpdateOutput /\ Len(tx_notes_index) = j)
    /\ SF_vars(CommitOk)

SpecLive == InitLive /\ [][NextLive]_vars /\ FairLive

\* C16: if shutdown is never requested and, for every height,
\* is_block_committed eventually returns true and the fetch, the update and
\* the commit eventually succeed, then under fair scheduling the persisted
\* last synced height eventually reaches any given height.
C16_Progress == <>(\A h \in Heights : db.chain_state >= h)

\* C16 witness: the last height is persisted after attempts at it had
\* failed.
C16_Witness ==
    /\ db.chain_state = MaxHeight
    /\ commit_log = [i \in 1..(MaxHeight + 1) |-> i - 1]
    /\ dirty_height = MaxHeight

\* ---------------------------------------------------------------- C17
\* run_migrations has read its limit and main has not gone past it
InMigration == env_retry # NoEnv

\* N: the value of DATABASE_MAX_MIGRATION_RETRY, 5 when unset or invalid
ExpectedRetries ==
    IF env_retry.kind = "int" THEN env_retry.n ELSE DEFAULT_MIGRATION_RETRY

BoundedMigrationState ==
    /\ InMigration =>
          /\ pc \in {"migrate", "migrated", "failed"}
          /\ mig_n = ExpectedRetries
          /\ max_retries >= 0 /\ max_retries <= mig_n
          /\ mig_attempts <= mig_n + 1
          /\ first_attempt = NoHeight /\ block_height = NoHeight
    \* every failed attempt has used one retry
    /\ pc = "migrate" => mig_attempts = mig_n - max_retries
    \* the successful attempt is the last one
    /\ pc = "migrated" => mig_attempts = mig_n - max_retries + 1
    /\ (pc = "failed" /\ InMigration) => main_result = "db_error"

BoundedMigrationStep ==
    \* an attempt with no retry left ends run_migrations
    /\ (pc = "migrate" /\ max_retries = 0
          /\ mig_attempts' = mig_attempts + 1) =>
          pc' \in {"migrated", "failed"}
    \* a failed attempt ends run_migrations only with no retry left
    /\ (pc = "migrate" /\ mig_attempts' = mig_attempts + 1
          /\ pc' = "failed") => max_retries = 0
    \* the follower loop is entered only from a successful run_migrations
    /\ (pc' = "loop" /\ pc \notin LoopPcs) => pc = "migrated"

\* C17: with N the value of DATABASE_MAX_MIGRATION_RETRY (5 when unset or
\* invalid), run_migrations retries a failing migration up to N times: it
\* returns success at the first attempt that succeeds, returns a storage
\* error when the attempt made with no retries left fails, and makes at most
\* N + 1 attempts; when it returns an error the follower loop never starts.
C17_BoundedMigrationRetries ==
    []BoundedMigrationState /\ [][BoundedMigrationStep]_vars

\* C17 witness: the variable is unset and the sixth attempt has failed.
C17_Witness ==
    /\ pc = "failed"
    /\ env_retry.kind = "unset"
    /\ mig_attempts = DEFAULT_MIGRATION_RETRY + 1
    /\ max_retries = 0
    /\ main_result = "db_error"

\* ---------------------------------------------------------------- C18
\* C18: on the migration path every storage error, the failure to acquire a
\* database connection included, is retried: run_migrations does not return
\* an error to main while retries remain.
C18_MigrationErrorsRetried ==
    (pc = "failed" /\ InMigration) => max_retries = 0

\* ---------------------------------------------------------------- C19
\* the attempt works on the committed tree and witness map only
AttemptOnCommittedState ==
    /\ commitment_tree.checkpoint = DeserializeTree(db.commitment_tree)
    /\ witness_map.checkpoint = DeserializeWitnessMap(db.witness_map)
    /\ attempt_size = Len(commitment_tree.checkpoint)
    /\ Take(commitment_tree.tree, attempt_size) = commitment_tree.checkpoint

\* what the attempt holds was made by this attempt, for this height
BuiltInThisAttempt ==
    /\ \A i \in DOMAIN tx_notes_index :
          /\ tx_notes_index[i][2] = block_height
          /\ tx_notes_index[i][5] = attempt_size + i - 1
    /\ TreeSize(commitment_tree) = attempt_size + Len(tx_notes_index)
    /\ DOMAIN witness_map.map =
          DOMAIN witness_map.checkpoint
            \cup (attempt_size..(TreeSize(commitment_tree) - 1))
    /\ \A p \in DOMAIN witness_map.map :
          witness_map.map[p].tree = Take(commitment_tree.tree, p + 1)
    /\ \A r \in shielded_txs : r.key.block_height = block_height

\* C19: the note index and the shielded txs passed to commit are built from
\* empty within the attempt, so the rows committed for height H are exactly
\* those of the successful attempt at H, with nothing left over from a failed
\* attempt at H or from another height; no operation of a later attempt
\* observes tree or witness state of a failed attempt.
C19_NoLeakageBetweenAttempts ==
    /\ pc \in {"get_conn", "is_block_committed", "query"} =>
          /\ AttemptOnCommittedState
          /\ commitment_tree.tree = commitment_tree.checkpoint
          /\ witness_map.map = witness_map.checkpoint
    /\ pc \in {"process", "commit"} =>
          /\ AttemptOnCommittedState
          /\ BuiltInThisAttempt
    /\ (pc = "spawn_done" /\ attempt_result = "committed") =>
          /\ db.notes_index = attempt_db.notes_index \o tx_notes_index
          /\ \A i \in DOMAIN attempt_db.notes_index :
                attempt_db.notes_index[i][2] # block_height
          /\ db.shielded_txs = attempt_db.shielded_txs
                \cup { ShieldedTxRow(r) : r \in shielded_txs }
          /\ \A r \in attempt_db.shielded_txs : r.block_height # block_height

\* C19 witness: a block with several outputs is committed at a height at
\* which an earlier attempt of this process had appended leaves and failed.
C19_Witness ==
    /\ pc = "spawn_done"
    /\ attempt_result = "committed"
    /\ dirty_height = block_height
    /\ nc_tally = Untracked
    /\ Len(tx_notes_index) > 1
    /\ attempt_size > 0

\* ---------------------------------------------------------------- C20
\* the run started from an empty database: storage is not one of the
\* preloaded inconsistent states (which no commit changes or produces)
OwnCommitsOnly == db \notin InvalidDbs

\* C20: starting from an empty database, after any sequence of commits,
\* failed attempts, crashes and restarts, the persisted witness count equals
\* the persisted tree size, so load_committed_state never rejects a state
\* that the indexer's own commits produced, blocks without shielded outputs
\* included.
C20_StartupGuardSelfConsistent ==
    OwnCommitsOnly =>
        /\ PersistedWitnessCount = PersistedTreeSize
        /\ ~InvalidDatabaseState(TreeSize(LoadedTree(db)),
                                 WitnessMapSize(LoadedWitnessMap(db)))
        /\ main_result # "invalid_database_state"
        /\ (txn # <<>>) =>
              Cardinality(txn[1].witness_map)
                = Len(DeserializeTree(txn[1].commitment_tree))

\* C20 witness: a restarted process has accepted the state left by its
\* predecessors, which committed a block without outputs after blocks with
\* outputs and were killed in the middle of a later attempt.
C20_Witness ==
    /\ pc = "loop"
    /\ restarts >= 1
    /\ OwnCommitsOnly
    /\ start_height >= 1
    /\ BlockOutputs(start_height) = <<>>
    /\ PersistedTreeSize > 0
    /\ dirty_height = start_height + 1

====
